---- MODULE Spec2Model ----
(***************************************************************************)
(* A model of lbftd.evalGibbs.evalSolutionGibbs: validation of the spline  *)
(* and of the caller's parameters, creation of the output object, wrapping *)
(* of the point set (with the injected 0 concentration), the derivative    *)
(* and auxiliary resources, the dependency-driven evaluation loop and the  *)
(* removal of the injected 0 concentration row.                            *)
(*                                                                         *)
(* Numbers are integers in abstract units.  A Python value that may be     *)
(* None is a sequence of length 0 (None) or 1 (the value).  Python's       *)
(* 0-based positions are 1-based here (iP, iT, iM are 1, 2, 3).            *)
(***************************************************************************)
EXTENDS Integers, Sequences, FiniteSets, TLC

\* --------------------------------------------------------------- bounds
\* largest number of points of the molality dimension of a caller's point set
MaxPts == 2
\* largest coordinate a caller's point set may hold (the smallest is -1)
MaxVal == 3
\* the last knot of every dimension of the spline
KnotMax == 2
\* passes of the evaluation loop without an eligible variable that are counted
MaxEmptyPasses == 2

\* ------------------------------------------------ constants of the source
iP == 1
iT == 2
iM == 3
vmWarningFactor == 2
floatSizeBytes == 8
\* psutil.virtual_memory().total of the machine, in bytes (abstract, small)
virtualMemoryTotal == 100

None == <<>>
Some(x) == <<x>>
\* Python's "x == 0 or not x" for a number-or-None
IsZeroOrAbsent(x) == x = None \/ x[1] = 0

\* ------------------------------------------------- the variable registry
\* lbftd.statevars is not part of the sources at hand; the descriptors below
\* follow the descriptor fields that evalGibbs.py reads (name, reqTDV, reqMWv,
\* reqMWu, reqM, reqF, req0M, reqGrid, reqDerivs, reqSpline, reqPTM).
Names == {"G", "rho", "mus", "Vex"}

reqMWv(t) == t \in {"rho"}
reqMWu(t) == t \in {"mus"}
reqM(t) == t \in {"Vex"}
reqF(t) == t \in {"mus"}
req0M(t) == t \in {"Vex"}
reqGrid(t) == t \in {"rho"}
reqSpline(t) == t \in {"G"}
reqPTM(t) == t \in {"Vex"}
reqDerivs(t) ==
    CASE t = "G" -> {"d0"}
      [] t = "rho" -> {"d1P"}
      [] t = "mus" -> {"d0", "d1M"}
      [] t = "Vex" -> {"d1P"}

\* dependency maps (reqTDV of every descriptor) an evaluation may be run with:
\* a well-formed registry (a diamond of depth 3) and one that breaks the
\* registry invariant (a self-dependency and a cycle of length 2)
RegistryOK ==
    [t \in Names |->
        CASE t = "G" -> {}
          [] t = "rho" -> {"G"}
          [] t = "mus" -> {"G"}
          [] t = "Vex" -> {"rho", "mus"}]
RegistryBad ==
    [t \in Names |->
        CASE t = "G" -> {"G"}
          [] t = "rho" -> {}
          [] t = "mus" -> {"Vex"}
          [] t = "Vex" -> {"mus"}]
Registries == {RegistryOK, RegistryBad}

\* statevars.tdvsPTOnly: the variables a PT spline can give (docstring of
\* evalSolutionGibbs, lines 45-46)
tdvsPTOnly == {t \in Names : ~reqM(t) /\ ~reqF(t) /\ ~req0M(t)}
\* the requested names the registry does not know
unknownTDVs(spec) == spec \ Names
RECURSIVE addTDVDependencies(_, _, _)
addTDVDependencies(spec, reg, n) ==
    IF n = 0 THEN spec
    ELSE addTDVDependencies(spec \cup UNION {reg[t] : t \in spec}, reg, n - 1)
\* statevars.expandTDVSpec: the default spec of the spline's dimensionality
\* for an empty request, else the request with all it depends on
expandTDVSpec(spec, dimCt, reg) ==
    IF spec = {} THEN (IF dimCt = 2 THEN tdvsPTOnly ELSE Names)
    ELSE addTDVDependencies(spec, reg, Cardinality(Names))
\* the requests of a caller: any names of the registry, none, or a name the
\* registry does not have
Requests == SUBSET Names \cup {{"G", "Kt"}}

\* ------------------------------------------------------------- point sets
\* the strictly ascending sequences over vals of length 1..n
AscendingSeqs(vals, n) ==
    {s \in UNION {[1..k -> vals] : k \in 1..n} :
        \A i \in 1..(Len(s) - 1) : s[i] < s[i + 1]}

\* the caller's candidate points of each dimension
PSeqs == {<<1>>, <<1, MaxVal>>}
TSeqs == {<<1>>, <<0, 1>>}
MSeqs == AscendingSeqs((0 - 1)..MaxVal, MaxPts)
\* ndarray-of-ndarrays point sets of a PT spline and of a PTM spline
PointSets(dimCt) ==
    IF dimCt = 2 THEN {<<p, t>> : p \in PSeqs, t \in TSeqs}
    ELSE {<<p, t, m>> : p \in PSeqs, t \in TSeqs, m \in MSeqs}

\* single points, given as a tuple of one scalar per dimension; a scalar s is
\* written <<s>> (line 164 and line 184 read it as the range (s, s), 1 point)
TuplePoints(dimCt) ==
    IF dimCt = 2 THEN {<<p, t>> : p \in {<<1>>, <<MaxVal>>}, t \in {<<1>>}}
    ELSE {<<p, t, m>> : p \in {<<1>>, <<MaxVal>>}, t \in {<<1>>},
                        m \in {<<x>> : x \in (0 - 1)..MaxVal}}
\* what the caller's point set is: an ndarray of ndarrays, a tuple of Python
\* numbers, or a tuple of numpy scalars
PtmKinds == {"arrays", "tuplePy", "tupleNp"}

\* the splines: knots per dimension, the molality knots starting at 0 or at 1
Splines ==
    {[knots |-> <<<<0, KnotMax>>, <<0, KnotMax>>>>]} \cup
    {[knots |-> <<<<0, KnotMax>>, <<0, KnotMax>>, <<k0, KnotMax>>>>] : k0 \in {0, 1}}
\* gibbsSp['number'].size
DimCt(gibbsSp) == Len(gibbsSp.knots)

\* ----------------------------------------------------------------- arrays
\* an ndarray is a function from index tuples (1-based) to values
Shape(ptm) == [d \in 1..Len(ptm) |-> Len(ptm[d])]
Indices(shape) ==
    IF Len(shape) = 2
    THEN {<<i, j>> : i \in 1..shape[1], j \in 1..shape[2]}
    ELSE {<<i, j, k>> : i \in 1..shape[1], j \in 1..shape[2], k \in 1..shape[3]}
\* the grid point of an index of the grid of ptm
PointAt(ptm, ix) == [d \in 1..Len(ptm) |-> ptm[d][ix[d]]]
\* the first point of every dimension (the reference row of the grid)
FirstPoints(ptm) == [d \in 1..Len(ptm) |-> ptm[d][1]]

\* ------------------------------------------------------------- validation
\* the outcome of a check: the ValueError it raises ("none": it returns) with
\* the statevar names or dimensions its message lists, and the warnings issued
Passed == [err |-> "none", names |-> {}, dims |-> {}, warnings |-> {}]
Raise(kind, names, dims) == [err |-> kind, names |-> names, dims |-> dims, warnings |-> {}]

knotranges(gibbsSp) ==
    [d \in 1..Len(gibbsSp.knots) |->
        <<gibbsSp.knots[d][1], gibbsSp.knots[d][Len(gibbsSp.knots[d])]>>]

\* variant: the 0 concentration test reads the knots of the wrong dimension
checkSplineAndTdvs_wrongDim(gibbsSp, dimCt, tdvSpec) ==
    LET req0Ms == {t \in tdvSpec : req0M(t)}
        reqMs == {t \in tdvSpec : reqF(t) \/ reqM(t)}
    IN  IF dimCt = 3 /\ req0Ms # {} /\ knotranges(gibbsSp)[iP][1] # 0
        THEN Raise("IncompatibleSpline", req0Ms, {})
        ELSE IF dimCt = 2 /\ reqMs # {}
        THEN Raise("DimensionMismatch", reqMs, {})
        ELSE Passed

\* variant: the dimension test forgets the variables that need f
checkSplineAndTdvs_forgetsF(gibbsSp, dimCt, tdvSpec) ==
    LET req0Ms == {t \in tdvSpec : req0M(t)}
        reqMs == {t \in tdvSpec : reqM(t)}
    IN  IF dimCt = 3 /\ req0Ms # {} /\ knotranges(gibbsSp)[iM][1] # 0
        THEN Raise("IncompatibleSpline", req0Ms, {})
        ELSE IF dimCt = 2 /\ reqMs # {}
        THEN Raise("DimensionMismatch", reqMs, {})
        ELSE Passed

checkSplineAndTdvs(gibbsSp, dimCt, tdvSpec) ==
    LET req0Ms == {t \in tdvSpec : req0M(t)}
        reqMs == {t \in tdvSpec : reqF(t) \/ reqM(t)}
    IN  IF dimCt = 3 /\ req0Ms # {} /\ knotranges(gibbsSp)[iM][1] # 0
        THEN Raise("IncompatibleSpline", req0Ms, {})
        ELSE IF dimCt = 2 /\ reqMs # {}
        THEN Raise("DimensionMismatch", reqMs, {})
        ELSE Passed

\* min and max of every dimension of a point set of sorted arrays
ptmranges(PTM) == [d \in 1..Len(PTM) |-> <<PTM[d][1], PTM[d][Len(PTM[d])]>>]
\* variant: only the upper end of the knot range is compared
hasValsOutsideKnotRange_upperOnly(kr, dr) == dr[2] > kr[2]
hasValsOutsideKnotRange(kr, dr) == dr[1] < kr[1] \/ dr[2] > kr[2]
extrapolationDims(gibbsSp, dimCt, PTM) ==
    {i \in 1..dimCt :
        hasValsOutsideKnotRange(knotranges(gibbsSp)[i], ptmranges(PTM)[i])}

\* the parameters keep the names and the order of the source's signature:
\* (gibbsSp, dimCt, tdvSpec, PTM, MWu, MWv, failOnExtrapolate)
checkUserInput(gibbsSp, dimCt, tdvSpec, PTM, MWu, MWv, failOnExtrapolate) ==
    LET reqMWvs == {t \in tdvSpec : reqMWv(t)}
        reqMWus == {t \in tdvSpec : reqMWu(t)}
        dims == extrapolationDims(gibbsSp, dimCt, PTM)
    IN  IF IsZeroOrAbsent(MWv) /\ reqMWvs # {}
        THEN Raise("MissingMWv", reqMWvs, {})
        ELSE IF IsZeroOrAbsent(MWu) /\ reqMWus # {}
        THEN Raise("MissingMWu", reqMWus, {})
        ELSE IF dims # {}
        THEN IF failOnExtrapolate
             THEN Raise("Extrapolation", {}, dims)
             ELSE [Passed EXCEPT !.dims = dims, !.warnings = {"extrapolation"}]
        ELSE Passed

RECURSIVE Product(_)
Product(s) == IF s = <<>> THEN 1 ELSE Head(s) * Product(Tail(s))
\* TRUE when the projected output exceeds vmWarningFactor times the memory
checkMemReq(tdvSpec, PTM) ==
    LET ptct == Product(Shape(PTM))
        outputSize == (Cardinality(tdvSpec) + 1) * ptct * floatSizeBytes
    IN  outputSize > virtualMemoryTotal * vmWarningFactor

\* the call of _checkUserInput passes MWv and then MWu by position
checkInputs(gibbsSp, dimCt, tdvSpec, PTM, MWv, MWu, failOnExtrapolate) ==
    LET r1 == checkSplineAndTdvs(gibbsSp, dimCt, tdvSpec)
        r2 == checkUserInput(gibbsSp, dimCt, tdvSpec, PTM, MWv, MWu, failOnExtrapolate)
    IN  IF r1.err # "none" THEN r1
        ELSE IF r2.err # "none" THEN r2
        ELSE IF checkMemReq(tdvSpec, PTM)
        THEN [r2 EXCEPT !.warnings = @ \cup {"memory"}]
        ELSE r2

\* ------------------------------------------- output object and point set
\* no output object (before createThermodynamicStatesObj has run)
NoObject == [flds |-> {}, PTM |-> <<>>, attrs |-> <<>>]
\* flds are the class attributes (None until set), PTM a copy of the caller's
\* point set, attrs the instance attributes set so far (vars(tdvout))
createThermodynamicStatesObj(dimCt, tdvSpec, PTM) ==
    [flds |-> tdvSpec \cup {"PTM"}, PTM |-> PTM, attrs |-> <<>>]

\* variant: the first molality of the point set is not looked at
needs0M_ignoresFirst(dimCt, PTM, tdvSpec) ==
    dimCt = 3 /\ \E t \in tdvSpec : req0M(t)

needs0M(dimCt, PTM, tdvSpec) ==
    dimCt = 3 /\ PTM[iM][1] # 0 /\ \E t \in tdvSpec : req0M(t)

\* the point set as nested arrays, with a 0 concentration prepended if needed
wrapPTM(origPTM, dimCt, tdvSpec) ==
    IF needs0M(dimCt, origPTM, tdvSpec)
    THEN [origPTM EXCEPT ![iM] = <<0>> \o @]
    ELSE origPTM

\* variant: slice(None, -1), the last M index is dropped instead of the first
sliceFirstM_dropsLast(v) ==
    LET n == Cardinality({ix[iM] : ix \in DOMAIN v})
    IN  [jx \in {ix \in DOMAIN v : ix[iM] < n} |-> v[jx]]

\* v[tuple(slc)] with slc[iM] = slice(1, None): drop the first M index
sliceFirstM(v) ==
    LET ixs == {ix \in DOMAIN v : ix[iM] > 1}
    IN  [jx \in {[ix EXCEPT ![iM] = @ - 1] : ix \in ixs} |-> v[[jx EXCEPT ![iM] = @ + 1]]]

\* variant: only the variables that are functions of molality are sliced
remove0M_reqMOnly(tdvout, wrappedPTM) ==
    IF Len(wrappedPTM) = 3 /\ wrappedPTM[iM][1] = 0 /\ tdvout.PTM[iM][1] # 0
    THEN [tdvout EXCEPT !.attrs =
            [p \in DOMAIN tdvout.attrs |->
                IF reqM(p) THEN sliceFirstM(tdvout.attrs[p]) ELSE tdvout.attrs[p]]]
    ELSE tdvout

\* variant: the caller's first molality is not compared with 0
remove0M_noCompare(tdvout, wrappedPTM) ==
    IF Len(wrappedPTM) = 3 /\ wrappedPTM[iM][1] = 0
    THEN [tdvout EXCEPT !.attrs =
            [p \in DOMAIN tdvout.attrs |-> sliceFirstM(tdvout.attrs[p])]]
    ELSE tdvout

\* lines 239-250: if the wrapped point set starts at 0 M and the caller's
\* (kept in tdvout.PTM) does not, every computed value loses its first M index
remove0M(tdvout, wrappedPTM) ==
    IF Len(wrappedPTM) = 3 /\ wrappedPTM[iM][1] = 0 /\ tdvout.PTM[iM][1] # 0
    THEN [tdvout EXCEPT !.attrs =
            [p \in DOMAIN tdvout.attrs |-> sliceFirstM(tdvout.attrs[p])]]
    ELSE tdvout

\* ------------------------------------------------ derivatives, grid and f
\* statevars.derivatives: the order of differentiation per dimension
derivSpec(dn) ==
    CASE dn = "d0" -> [wrtP |-> 0, wrtT |-> 0, wrtM |-> 0]
      [] dn = "d1P" -> [wrtP |-> 1, wrtT |-> 0, wrtM |-> 0]
      [] dn = "d1M" -> [wrtP |-> 0, wrtT |-> 0, wrtM |-> 1]
buildDerivDirective(dspec, dimCt) ==
    [d \in 1..dimCt |->
        IF d = iP THEN dspec.wrtP ELSE IF d = iT THEN dspec.wrtT ELSE dspec.wrtM]
\* the result of the external evaluator, kept symbolic
evalMultivarSpline(gibbsSp, PTM, derivDirective) ==
    [sp |-> gibbsSp, at |-> PTM, der |-> derivDirective]
reqderivs(tdvSpec) == UNION {reqDerivs(t) : t \in tdvSpec}
getDerivatives(gibbsSp, PTM, dimCt, tdvSpec) ==
    [rd \in reqderivs(tdvSpec) |->
        evalMultivarSpline(gibbsSp, PTM, buildDerivDirective(derivSpec(rd), dimCt))]
\* variant: one call for every variable that lists the derivative
evaluatorCalls_perVariable(tdvSpec) ==
    [rd \in reqderivs(tdvSpec) |-> Cardinality({t \in tdvSpec : rd \in reqDerivs(t)})]
\* how often the loop of lines 282-287 calls the evaluator for a derivative:
\* reqderivs is a set, every name in it is met once
evaluatorCalls(tdvSpec) == [rd \in reqderivs(tdvSpec) |-> 1]
getGriddedPTM(tdvSpec, PTM) ==
    IF \E t \in tdvSpec : reqGrid(t) THEN Some([meshgrid |-> PTM]) ELSE None
\* 1 + MWu * PTM[iM], for a solute molecular weight that is a number
getVolSolventInVolSlnConversion(MWu, PTM) ==
    [k \in 1..Len(PTM[iM]) |-> 1 + MWu[1] * PTM[iM][k]]

\* ------------------------------------------------------------- evaluation
\* variant: completed variables are not left out of the batch
eligible_recomputes(tdvSpec, reqTDV, completedTDVs) ==
    {t \in tdvSpec : reqTDV[t] = {} \/ reqTDV[t] \ completedTDVs = {}}

\* variant: the dependencies are not looked at
eligible_ignoresDeps(tdvSpec, reqTDV, completedTDVs) ==
    {t \in tdvSpec : t \notin completedTDVs}

\* variant: only variables without dependencies are ever eligible
eligible_noDepsOnly(tdvSpec, reqTDV, completedTDVs) ==
    {t \in tdvSpec : t \notin completedTDVs /\ reqTDV[t] = {}}

\* variant: a dependency that is itself eligible counts as completed
eligible_withBatchDeps(tdvSpec, reqTDV, completedTDVs) ==
    {t \in tdvSpec : t \notin completedTDVs
                     /\ \A d \in reqTDV[t] :
                            d \in completedTDVs \/ reqTDV[d] \ completedTDVs = {}}

\* the variables of a pass: not completed, and every dependency completed
eligible(tdvSpec, reqTDV, completedTDVs) ==
    {t \in tdvSpec : t \notin completedTDVs
                     /\ (reqTDV[t] = {} \/ reqTDV[t] \ completedTDVs = {})}

\* variant: every resource is passed, whatever the flags of the descriptor
buildEvalArgs_allKeys(t, reqTDV, derivs, PTM, gPTM, MWv, MWu, tdvout, gibbsSp, f) ==
    [k \in {"derivs", "grid", "MWv", "MWu", "tdv", "spline", "PTM", "f"} |->
        CASE k = "derivs" -> derivs
          [] k = "grid" -> gPTM
          [] k = "MWv" -> MWv
          [] k = "MWu" -> MWu
          [] k = "tdv" -> tdvout
          [] k = "spline" -> gibbsSp
          [] k = "PTM" -> PTM
          [] k = "f" -> f]

\* lines 87-97: one keyword argument for every flag the descriptor sets (an
\* argument is named here by the kind of its resource)
buildEvalArgs(t, reqTDV, derivs, PTM, gPTM, MWv, MWu, tdvout, gibbsSp, f) ==
    LET keys == {k \in {"derivs", "grid", "MWv", "MWu", "tdv", "spline", "PTM", "f"} :
                    \/ k = "derivs" /\ reqDerivs(t) # {}
                    \/ k = "grid" /\ reqGrid(t)
                    \/ k = "MWv" /\ reqMWv(t)
                    \/ k = "MWu" /\ reqMWu(t)
                    \/ k = "tdv" /\ reqTDV[t] # {}
                    \/ k = "spline" /\ reqSpline(t)
                    \/ k = "PTM" /\ reqPTM(t)
                    \/ k = "f" /\ reqF(t)}
    IN  [k \in keys |->
            CASE k = "derivs" -> derivs
              [] k = "grid" -> gPTM
              [] k = "MWv" -> MWv
              [] k = "MWu" -> MWu
              [] k = "tdv" -> tdvout
              [] k = "spline" -> gibbsSp
              [] k = "PTM" -> PTM
              [] k = "f" -> f]

\* a descriptor's calcFn: an array over the grid of the point set it is
\* evaluated on; a value may depend on its grid point and on the first point
\* of every dimension (the 0 concentration reference)
calcFn(t, PTM) ==
    [ix \in Indices(Shape(PTM)) |->
        [tdv |-> t, point |-> PointAt(PTM, ix), first |-> FirstPoints(PTM)]]

\* --------------------------------------------------------- loadGibbsSpline
\* the most elements an MW field of a file has
MaxMW == 3
\* a value of a field: a number, a NaN, or something that is not a number
Num(x) == [kind |-> "num", val |-> x]
NaN == [kind |-> "nan", val |-> 0]
NotNumber == [kind |-> "str", val |-> 0]
\* isinstance(mw, Number) and not isnan(mw)
isNumeric(v) == v.kind = "num"
\* the struct of a file: sp (its form and dim, the sizes of a file's spline
\* being consistent), MW (an array, a scalar being an array of 1 element), nu
\* and Go, each field present or absent (None)
RawFiles ==
    [sp : {None} \cup {Some([form |-> fm, dim |-> d]) : fm \in {"B-", "pp"}, d \in {1, 2}},
     MW : {None} \cup {Some(w) : w \in UNION {[1..k -> {Num(18), Num(58), NaN}] :
                                               k \in 0..MaxMW}},
     nu : {None, Some(Num(1)), Some(Num(2)), Some(NotNumber)},
     Go : {None, Some("Go")}]
NoFile == [sp |-> None, MW |-> None, nu |-> None, Go |-> None]

\* mlbspline.load.validateSpline, lines 58-62
validateSpline(spd) ==
    IF spd.form # "B-" THEN Raise("NotBSpline", {}, {})
    ELSE IF spd.dim # 1 THEN Raise("Not1DValues", {}, {})
    ELSE Passed

\* _getMW: the outcome and the value returned
getMW(rawStruct) ==
    LET MW == IF rawStruct.MW = None THEN <<>> ELSE rawStruct.MW[1]
        warned == IF rawStruct.MW = None THEN {"noMW"} ELSE {}
    IN  IF Len(MW) > 2
        THEN [out |-> [Raise("MWTooMany", {}, {}) EXCEPT !.warnings = warned],
              val |-> <<>>]
        ELSE IF \E k \in 1..Len(MW) : ~isNumeric(MW[k])
        THEN [out |-> [Raise("MWNotNumeric", {}, {}) EXCEPT !.warnings = warned],
              val |-> <<>>]
        ELSE [out |-> [Passed EXCEPT !.warnings = warned], val |-> MW]
\* _getnu and _getGo: their bodies are `pass`, they return None
getnu(rawStruct) == None
getGo(rawStruct) == None

\* ------------------------------------------------------------------ state
VARIABLES
    gibbsSp,            \* the spline (its knots)
    origSpec,           \* the names the caller requested
    tdvSpec,            \* the spec: the request, then the expanded spec
    noted,              \* the names the NOTE of line 59 lists (None: no NOTE)
    ptmKind,            \* what kind of object the caller's point set is
    reqTDV,             \* reqTDV of every descriptor of the registry
    PTM,                \* the caller's point set object (an array of arrays)
    givenPTM,           \* the values the caller's point set held at the call
    MWv, MWu,           \* molecular weights (None or a number)
    failOnExtrapolate,
    pc,                 \* where evalSolutionGibbs is
    raised,             \* the outcome of validation, or the error raised later
    tdvout,             \* the output object
    wPTM,               \* the local PTM after _wrapPTM
    derivs, splineCalls, gPTM, f,
    completedTDVs,
    tdvsToEval,         \* what is left of the current pass's batch
    passBatch,          \* the whole batch of the current pass
    callLog,            \* per variable invoked: what its calcFn was given
    calls,              \* per variable: how often its calcFn was invoked
    emptyPasses,        \* passes that found nothing to evaluate (capped)
    callNo,             \* 1: the caller's call, 2: its repetition with a leading 0
    prevOut,            \* the output of call 1, once call 2 has begun
    raw,                \* the fields of the struct of a spline file
    loaded              \* what loadGibbsSpline returned (None: nothing)

vars == <<gibbsSp, origSpec, tdvSpec, noted, ptmKind, reqTDV, PTM, givenPTM, MWv,
          MWu, failOnExtrapolate, pc, raised, tdvout, wPTM, derivs, splineCalls,
          gPTM, f, completedTDVs, tdvsToEval, passBatch, callLog, calls,
          emptyPasses, callNo, prevOut, raw, loaded>>

\* what a call is given, and the spec once it is expanded
inputs ==
    <<gibbsSp, origSpec, ptmKind, reqTDV, MWv, MWu, failOnExtrapolate, raw, loaded>>
expanded == <<tdvSpec, noted>>

MWs == {None, Some(0), Some(18)}

\* the locals of a call before its first statement
Entry ==
    /\ pc = "expand"
    /\ tdvSpec = origSpec
    /\ noted = None
    /\ passBatch = {}
    /\ raised = Passed
    /\ tdvout = NoObject
    /\ wPTM = <<>>
    /\ derivs = <<>>
    /\ splineCalls = <<>>
    /\ gPTM = None
    /\ f = None
    /\ completedTDVs = {}
    /\ tdvsToEval = {}
    /\ callLog = <<>>
    /\ calls = [t \in Names |-> 0]
    /\ emptyPasses = 0

Init ==
    /\ gibbsSp \in Splines
    /\ origSpec \in Requests
    /\ reqTDV \in Registries
    /\ ptmKind \in PtmKinds
    /\ PTM \in IF ptmKind = "arrays" THEN PointSets(DimCt(gibbsSp))
               ELSE TuplePoints(DimCt(gibbsSp))
    /\ givenPTM = PTM
    /\ MWv \in MWs
    /\ MWu \in MWs
    /\ failOnExtrapolate \in BOOLEAN
    /\ callNo = 1
    /\ prevOut = NoObject
    /\ raw = NoFile
    /\ loaded = None
    /\ Entry

\* ---------------------------------------------------------------- actions
\* variant: every name of the expanded spec is taken as added
addedTDVs_all(spec, orig) == spec
\* line 57: the names of the expanded spec that were not requested
addedTDVs(spec, orig) == {n \in spec : n \notin orig}
\* line 58: the NOTE is printed for a request that is not empty and was added to
noteAdded(orig, added) == IF orig # {} /\ added # {} THEN Some(added) ELSE None

\* variant: the result of the expansion is dropped, the request is kept
ExpandSpec_keepsRequest ==
    /\ pc = "expand"
    /\ IF unknownTDVs(origSpec) # {}
       THEN /\ pc' = "raised"
            /\ raised' = Raise("UnknownVariable", unknownTDVs(origSpec), {})
            /\ UNCHANGED expanded
       ELSE /\ tdvSpec' = origSpec
            /\ noted' = noteAdded(origSpec, addedTDVs(tdvSpec', origSpec))
            /\ pc' = "check"
            /\ raised' = raised
    /\ UNCHANGED <<inputs, PTM, givenPTM, tdvout, wPTM, derivs, splineCalls, gPTM, f,
                   completedTDVs, tdvsToEval, passBatch, callLog, calls, emptyPasses,
                   callNo, prevOut>>

\* lines 53-60: the spec is expanded (a name the registry does not have ends
\* the call) and the names that were added are noted
ExpandSpec ==
    /\ pc = "expand"
    /\ IF unknownTDVs(origSpec) # {}
       THEN /\ pc' = "raised"
            /\ raised' = Raise("UnknownVariable", unknownTDVs(origSpec), {})
            /\ UNCHANGED expanded
       ELSE /\ tdvSpec' = expandTDVSpec(origSpec, DimCt(gibbsSp), reqTDV)
            /\ noted' = noteAdded(origSpec, addedTDVs(tdvSpec', origSpec))
            /\ pc' = "check"
            /\ raised' = raised
    /\ UNCHANGED <<inputs, PTM, givenPTM, tdvout, wPTM, derivs, splineCalls, gPTM, f,
                   completedTDVs, tdvsToEval, passBatch, callLog, calls, emptyPasses,
                   callNo, prevOut>>

\* variant: the output object is created before the inputs are checked
CheckInputs_afterCreate ==
    /\ pc = "check"
    /\ LET r == checkInputs(gibbsSp, DimCt(gibbsSp), tdvSpec, PTM, MWv, MWu,
                            failOnExtrapolate)
       IN  /\ raised' = r
           /\ pc' = IF r.err = "none" THEN "prepare" ELSE "raised"
    /\ tdvout' = createThermodynamicStatesObj(DimCt(gibbsSp), tdvSpec, PTM)
    /\ UNCHANGED <<inputs, expanded, PTM, givenPTM, wPTM, derivs, splineCalls, gPTM, f,
                   completedTDVs, tdvsToEval, passBatch, callLog, calls, emptyPasses, callNo,
                   prevOut>>

\* _checkInputs (line 61): returns, or raises a ValueError
CheckInputs ==
    /\ pc = "check"
    /\ LET r == checkInputs(gibbsSp, DimCt(gibbsSp), tdvSpec, PTM, MWv, MWu,
                            failOnExtrapolate)
       IN  /\ raised' = r
           /\ pc' = IF r.err = "none" THEN "prepare" ELSE "raised"
    /\ UNCHANGED <<inputs, expanded, PTM, givenPTM, tdvout, wPTM, derivs, splineCalls, gPTM, f,
                   completedTDVs, tdvsToEval, passBatch, callLog, calls, emptyPasses, callNo,
                   prevOut>>

\* variant: the output object keeps no copy of the point set, it holds the
\* point set as it is after wrapping
Prepare_keepsNoCopy ==
    /\ pc = "prepare"
    /\ LET dimCt == DimCt(gibbsSp)
           w == wrapPTM(PTM, dimCt, tdvSpec)
           needF == \E t \in tdvSpec : reqF(t)
       IN  /\ tdvout' = createThermodynamicStatesObj(dimCt, tdvSpec,
                            IF ptmKind = "tuplePy" THEN PTM ELSE w)
           /\ IF ptmKind = "tuplePy"
              THEN /\ raised' = [raised EXCEPT !.err = "TypeError"]
                   /\ pc' = "raised"
                   /\ UNCHANGED <<wPTM, PTM, derivs, splineCalls, gPTM, f>>
              ELSE /\ wPTM' = w
                   /\ PTM' = IF ptmKind = "arrays" THEN w ELSE PTM
                   /\ derivs' = getDerivatives(gibbsSp, w, dimCt, tdvSpec)
                   /\ splineCalls' = evaluatorCalls(tdvSpec)
                   /\ gPTM' = getGriddedPTM(tdvSpec, w)
                   /\ IF needF /\ MWu = None
                      THEN /\ f' = None
                           /\ raised' = [raised EXCEPT !.err = "TypeError"]
                           /\ pc' = "raised"
                      ELSE /\ f' = IF needF
                                   THEN Some(getVolSolventInVolSlnConversion(MWu, w))
                                   ELSE None
                           /\ raised' = raised
                           /\ pc' = "loop"
    /\ UNCHANGED <<inputs, expanded, givenPTM, completedTDVs, tdvsToEval, passBatch,
                   callLog, calls, emptyPasses, callNo, prevOut>>

\* lines 63-67: the output object, the wrapped point set, the derivatives, the
\* grid and f.  origPTM[iP][0] (line 209) raises an IndexError, which is
\* caught, on a numpy scalar and a TypeError, which is not, on a Python
\* number.  For an ndarray of ndarrays the wrapped point set is the caller's
\* array, which is the one written; for a tuple it is a new array.
Prepare ==
    /\ pc = "prepare"
    /\ LET dimCt == DimCt(gibbsSp)
           w == wrapPTM(PTM, dimCt, tdvSpec)
           needF == \E t \in tdvSpec : reqF(t)
       IN  /\ tdvout' = createThermodynamicStatesObj(dimCt, tdvSpec, PTM)
           /\ IF ptmKind = "tuplePy"
              THEN /\ raised' = [raised EXCEPT !.err = "TypeError"]
                   /\ pc' = "raised"
                   /\ UNCHANGED <<wPTM, PTM, derivs, splineCalls, gPTM, f>>
              ELSE /\ wPTM' = w
                   /\ PTM' = IF ptmKind = "arrays" THEN w ELSE PTM
                   /\ derivs' = getDerivatives(gibbsSp, w, dimCt, tdvSpec)
                   /\ splineCalls' = evaluatorCalls(tdvSpec)
                   /\ gPTM' = getGriddedPTM(tdvSpec, w)
                   /\ IF needF /\ MWu = None
                      THEN /\ f' = None
                           /\ raised' = [raised EXCEPT !.err = "TypeError"]
                           /\ pc' = "raised"
                      ELSE /\ f' = IF needF
                                   THEN Some(getVolSolventInVolSlnConversion(MWu, w))
                                   ELSE None
                           /\ raised' = raised
                           /\ pc' = "loop"
    /\ UNCHANGED <<inputs, expanded, givenPTM, completedTDVs, tdvsToEval, passBatch,
                   callLog, calls, emptyPasses, callNo, prevOut>>

\* the head of the while loop and the choice of the pass's batch (lines 71-74)
BeginPass ==
    /\ pc = "loop"
    /\ IF Cardinality(completedTDVs) < Cardinality(tdvSpec)
       THEN LET batch == eligible(tdvSpec, reqTDV, completedTDVs)
            IN  /\ tdvsToEval' = batch
                /\ passBatch' = batch
                /\ pc' = IF batch = {} THEN "loop" ELSE "eval"
                /\ emptyPasses' = IF batch = {} /\ emptyPasses < MaxEmptyPasses
                                  THEN emptyPasses + 1 ELSE emptyPasses
       ELSE /\ pc' = "remove0M"
            /\ UNCHANGED <<tdvsToEval, passBatch, emptyPasses>>
    /\ UNCHANGED <<inputs, expanded, PTM, givenPTM, raised, tdvout, wPTM, derivs,
                   splineCalls,
                   gPTM, f, completedTDVs, callLog, calls, callNo, prevOut>>

\* one turn of the for loop (lines 75-81), for any variable left of the batch
EvalTdv ==
    /\ pc = "eval"
    /\ \E t \in tdvsToEval :
        LET args == buildEvalArgs(t, reqTDV, derivs, wPTM, gPTM, MWv, MWu, tdvout,
                                  gibbsSp, f)
        IN  /\ callLog' = (t :> [completed |-> completedTDVs,
                                 stored |-> DOMAIN tdvout.attrs,
                                 args |-> args]) @@ callLog
            /\ calls' = [calls EXCEPT ![t] = @ + 1]
            /\ tdvout' = [tdvout EXCEPT !.attrs = (t :> calcFn(t, wPTM)) @@ @]
            /\ completedTDVs' = completedTDVs \cup {t}
            /\ tdvsToEval' = tdvsToEval \ {t}
            /\ pc' = IF tdvsToEval \ {t} = {} THEN "loop" ELSE "eval"
    /\ UNCHANGED <<inputs, expanded, PTM, givenPTM, raised, wPTM, derivs, splineCalls,
                   gPTM, f, passBatch, emptyPasses, callNo, prevOut>>

\* _remove0M and the return (lines 83-85)
Remove0M ==
    /\ pc = "remove0M"
    /\ tdvout' = remove0M(tdvout, wPTM)
    /\ pc' = "returned"
    /\ UNCHANGED <<inputs, expanded, PTM, givenPTM, raised, wPTM, derivs, splineCalls, gPTM, f,
                   completedTDVs, tdvsToEval, passBatch, callLog, calls, emptyPasses, callNo,
                   prevOut>>

\* the caller repeats a returned call of a PTM spline, for a spec with a req0M
\* variable and molalities that do not start at 0, with 0 put in front of them
ReEvaluateWithZero ==
    /\ pc = "returned"
    /\ callNo = 1
    /\ ptmKind = "arrays"
    /\ DimCt(gibbsSp) = 3
    /\ givenPTM[iM][1] # 0
    /\ \E t \in tdvSpec : req0M(t)
    /\ callNo' = 2
    /\ prevOut' = tdvout
    /\ PTM' = [givenPTM EXCEPT ![iM] = <<0>> \o @]
    /\ givenPTM' = PTM'
    /\ pc' = "expand"
    /\ tdvSpec' = origSpec
    /\ noted' = None
    /\ passBatch' = {}
    /\ raised' = Passed
    /\ tdvout' = NoObject
    /\ wPTM' = <<>>
    /\ derivs' = <<>>
    /\ splineCalls' = <<>>
    /\ gPTM' = None
    /\ f' = None
    /\ completedTDVs' = {}
    /\ tdvsToEval' = {}
    /\ callLog' = <<>>
    /\ calls' = [t \in Names |-> 0]
    /\ emptyPasses' = 0
    /\ UNCHANGED inputs

\* loadGibbsSpline, lines 29-44
LoadGibbsSpline ==
    /\ pc = "load"
    /\ IF raw.sp = None
       THEN /\ raised' = Raise("KeyError", {}, {})
            /\ pc' = "raised"
            /\ loaded' = loaded
       ELSE IF validateSpline(raw.sp[1]).err # "none"
       THEN /\ raised' = validateSpline(raw.sp[1])
            /\ pc' = "raised"
            /\ loaded' = loaded
       ELSE LET mw == getMW(raw)
            IN  /\ raised' = mw.out
                /\ IF mw.out.err # "none"
                   THEN /\ pc' = "raised"
                        /\ loaded' = loaded
                   ELSE /\ pc' = "loaded"
                        /\ loaded' = Some([sp |-> raw.sp[1],
                                           MW |-> mw.val,
                                           nu |-> IF Len(mw.val) = 1 THEN Some(0)
                                                  ELSE getnu(raw),
                                           Go |-> IF Len(mw.val) = 1 THEN None
                                                  ELSE getGo(raw)])
    /\ UNCHANGED <<gibbsSp, origSpec, ptmKind, reqTDV, MWv, MWu, failOnExtrapolate,
                   raw, expanded, PTM, givenPTM, tdvout, wPTM, derivs, splineCalls,
                   gPTM, f, completedTDVs, tdvsToEval, passBatch, callLog, calls,
                   emptyPasses, callNo, prevOut>>

\* a program that loads a spline file
LoadInit ==
    /\ raw \in RawFiles
    /\ loaded = None
    /\ pc = "load"
    /\ gibbsSp = [knots |-> <<<<0, KnotMax>>, <<0, KnotMax>>>>]
    /\ origSpec = {}
    /\ tdvSpec = {}
    /\ noted = None
    /\ reqTDV = RegistryOK
    /\ ptmKind = "arrays"
    /\ PTM = <<<<1>>, <<1>>>>
    /\ givenPTM = PTM
    /\ MWv = None
    /\ MWu = None
    /\ failOnExtrapolate = TRUE
    /\ callNo = 1
    /\ prevOut = NoObject
    /\ passBatch = {}
    /\ raised = Passed
    /\ tdvout = NoObject
    /\ wPTM = <<>>
    /\ derivs = <<>>
    /\ splineCalls = <<>>
    /\ gPTM = None
    /\ f = None
    /\ completedTDVs = {}
    /\ tdvsToEval = {}
    /\ callLog = <<>>
    /\ calls = [t \in Names |-> 0]
    /\ emptyPasses = 0
LoadNext == LoadGibbsSpline
LoadSpec == LoadInit /\ [][LoadNext]_vars

Next ==
    \/ ExpandSpec
    \/ CheckInputs
    \/ Prepare
    \/ BeginPass
    \/ EvalTdv
    \/ Remove0M
    \/ ReEvaluateWithZero

Spec == Init /\ [][Next]_vars

\* the interpreter keeps running the call: no step that can be taken is
\* postponed forever
FairSpec == Spec /\ WF_vars(Next)

\* ------------------------------------------------------------- properties
\* the names a variable depends on, directly or through other variables
RECURSIVE DepClosure(_, _, _)
DepClosure(deps, reg, n) ==
    IF n = 0 THEN deps
    ELSE DepClosure(deps \cup UNION {reg[d] : d \in deps}, reg, n - 1)
Closed(spec, reg) == \A t \in spec : reg[t] \subseteq spec
Acyclic(spec, reg) ==
    \A t \in spec : t \notin DepClosure(reg[t], reg, Cardinality(Names))
WellFormed ==
    tdvSpec \subseteq Names /\ Closed(tdvSpec, reqTDV) /\ Acyclic(tdvSpec, reqTDV)
\* the call has run its checks of the inputs
Checked == pc \notin {"expand", "check"} /\ raised.err # "UnknownVariable"

ValidationErrors ==
    {"IncompatibleSpline", "DimensionMismatch", "MissingMWv", "MissingMWu",
     "Extrapolation"}
NothingComputed ==
    /\ tdvout = NoObject
    /\ splineCalls = <<>>
    /\ \A t \in Names : calls[t] = 0
    /\ callLog = <<>>

\* C1: when evalSolutionGibbs returns, the calcFn of every variable of the
\* spec has been invoked exactly once and its result is stored under its name
\* in the output object; at no moment has a calcFn been invoked twice, and no
\* variable outside the spec is ever invoked.
C1_EachVariableOnce ==
    /\ \A t \in Names : calls[t] <= 1
    /\ \A t \in Names \ tdvSpec : calls[t] = 0
    /\ pc = "returned" =>
        /\ \A t \in tdvSpec : calls[t] = 1 /\ t \in DOMAIN tdvout.attrs
        /\ DOMAIN tdvout.attrs = tdvSpec
C1_Witness ==
    /\ pc = "returned"
    /\ WellFormed
    /\ Cardinality(tdvSpec) = Cardinality(Names)
    /\ \A t \in tdvSpec : calls[t] = 1

\* C2: a variable's calcFn is invoked only when every name of its reqTDV is in
\* the completed set and has its value stored in the output object.
C2_DependenciesFirst ==
    \A t \in DOMAIN callLog :
        /\ reqTDV[t] \subseteq callLog[t].completed
        /\ reqTDV[t] \subseteq callLog[t].stored
C2_Witness ==
    /\ "Vex" \in DOMAIN callLog
    /\ reqTDV["Vex"] = {"rho", "mus"}
    /\ callLog["Vex"].completed = {"G", "rho", "mus"}

\* C3 (as claimed): a pass that finds no eligible variable while the completed
\* set is smaller than the spec ends the call with a DependencyCycle error.
C3_FailsFast ==
    emptyPasses > 0 => pc = "raised" /\ raised.err = "DependencyCycle"

\* C4: for a spec that is acyclic and dependency-closed the loop, once
\* entered, is left with the completed set equal to the spec, and no pass
\* finds nothing to evaluate.
C4_Terminates ==
    /\ [](pc = "loop" /\ WellFormed => <>(pc = "remove0M" /\ completedTDVs = tdvSpec))
    /\ [](WellFormed => emptyPasses = 0)
C4_Witness ==
    /\ pc = "remove0M"
    /\ WellFormed
    /\ completedTDVs = tdvSpec
    /\ Cardinality(tdvSpec) = Cardinality(Names)

\* C5: a call that fails validation (incompatible spline, dimension mismatch,
\* missing molecular weight, extrapolation under the fail policy) has ended
\* without an output object, without a call of the spline evaluator and
\* without a call of any calcFn, and the caller's point set is untouched.
C5_ValidationBeforeWork ==
    raised.err \in ValidationErrors =>
        /\ pc = "raised"
        /\ NothingComputed
        /\ PTM = givenPTM
C5_Witness ==
    /\ pc = "raised"
    /\ raised.err = "Extrapolation"
    /\ NothingComputed

\* the capability check has been passed by the call
CapabilityPassed ==
    /\ Checked
    /\ checkSplineAndTdvs(gibbsSp, DimCt(gibbsSp), tdvSpec).err = "none"
reqMWvs == {t \in tdvSpec : reqMWv(t)}
reqMWus == {t \in tdvSpec : reqMWu(t)}

\* C6 (as claimed): when a variable of the spec requires MWv and the caller's
\* MWv is absent or zero, or one requires MWu and the caller's MWu is absent or
\* zero, the call (once past the capability check) fails with the missing
\* molecular weight error naming exactly the variables that carry the flag.
C6_MissingWeightNamed ==
    /\ (CapabilityPassed /\ reqMWvs # {} /\ IsZeroOrAbsent(MWv)) =>
            /\ pc = "raised"
            /\ \/ raised.err = "MissingMWv" /\ raised.names = reqMWvs
               \/ raised.err = "MissingMWu" /\ raised.names = reqMWus
                                            /\ IsZeroOrAbsent(MWu)
    /\ (CapabilityPassed /\ reqMWus # {} /\ IsZeroOrAbsent(MWu)) =>
            /\ pc = "raised"
            /\ \/ raised.err = "MissingMWu" /\ raised.names = reqMWus
               \/ raised.err = "MissingMWv" /\ raised.names = reqMWvs
                                            /\ IsZeroOrAbsent(MWv)

\* C7: for a PTM spline whose molality knots do not start at 0 and a spec with
\* a req0M variable, the call always ends with the incompatible spline error,
\* naming the req0M variables, with nothing computed.
C7_IncompatibleSpline ==
    (/\ Checked
     /\ DimCt(gibbsSp) = 3
     /\ gibbsSp.knots[iM][1] # 0
     /\ \E t \in tdvSpec : req0M(t)) =>
        /\ pc = "raised"
        /\ raised.err = "IncompatibleSpline"
        /\ raised.names = {t \in tdvSpec : req0M(t)}
        /\ NothingComputed
C7_Witness ==
    /\ pc = "raised"
    /\ raised.err = "IncompatibleSpline"
    /\ gibbsSp.knots[iM][1] = 1
    /\ ~failOnExtrapolate
    /\ MWv = Some(18)

\* C8: for a PT spline and a spec with a reqM or reqF variable the call always
\* ends with the dimension mismatch error, with nothing computed; for a PT
\* spline without such a variable that error is never raised.
C8_DimensionMismatch ==
    (Checked /\ DimCt(gibbsSp) = 2) =>
        IF \E t \in tdvSpec : reqM(t) \/ reqF(t)
        THEN /\ pc = "raised"
             /\ raised.err = "DimensionMismatch"
             /\ raised.names = {t \in tdvSpec : reqM(t) \/ reqF(t)}
             /\ NothingComputed
        ELSE raised.err # "DimensionMismatch"
C8_Witness ==
    /\ pc = "raised"
    /\ raised.err = "DimensionMismatch"
    /\ DimCt(gibbsSp) = 2
    /\ tdvSpec = {"G", "mus"}

\* the call has come to the range check: the checks before it did not raise
RangeCheckReached ==
    /\ Checked
    /\ raised.err \notin {"IncompatibleSpline", "DimensionMismatch", "MissingMWv",
                          "MissingMWu"}
\* some point of some dimension of the caller's point set lies below the first
\* or above the last knot of that dimension
SomePointOutside ==
    \E d \in 1..DimCt(gibbsSp) : \E k \in 1..Len(givenPTM[d]) :
        \/ givenPTM[d][k] < gibbsSp.knots[d][1]
        \/ givenPTM[d][k] > gibbsSp.knots[d][Len(gibbsSp.knots[d])]
Sorted(ptm) ==
    \A d \in 1..Len(ptm) : \A k \in 1..(Len(ptm[d]) - 1) : ptm[d][k] < ptm[d][k + 1]

\* C9: for a sorted point set that has come to the range check: with a point
\* outside the knot range the call ends with the extrapolation error when
\* failOnExtrapolate is true, and is warned and passes validation when it is
\* false; with every point inside, the range check neither raises nor warns.
C9_ExtrapolationPolicy ==
    (RangeCheckReached /\ Sorted(givenPTM)) =>
        IF SomePointOutside
        THEN IF failOnExtrapolate
             THEN /\ pc = "raised"
                  /\ raised.err = "Extrapolation"
                  /\ "extrapolation" \notin raised.warnings
             ELSE /\ "extrapolation" \in raised.warnings
                  /\ raised.err \notin ValidationErrors
                  /\ pc = "raised" => tdvout # NoObject
        ELSE /\ "extrapolation" \notin raised.warnings
             /\ raised.err # "Extrapolation"
\* a call that was warned and has run to its return
C9_Witness ==
    /\ callNo = 1
    /\ pc = "returned"
    /\ ~failOnExtrapolate
    /\ SomePointOutside
    /\ "extrapolation" \in raised.warnings
    /\ DOMAIN tdvout.attrs = tdvSpec

\* C10: when a PTM call with a req0M variable and molalities M that do not
\* start at 0 has returned, and the same call with 0 put in front of M has
\* returned, every variable has in the second output one more molality row
\* than in the first, and at every grid point with a molality of M the two
\* outputs hold the same value.
C10_RoundTrip ==
    (callNo = 2 /\ pc = "returned") =>
        /\ DOMAIN tdvout.attrs = DOMAIN prevOut.attrs
        /\ \A v \in DOMAIN prevOut.attrs :
            /\ DOMAIN tdvout.attrs[v] =
                   DOMAIN prevOut.attrs[v] \cup
                   {[ix EXCEPT ![iM] = 1] : ix \in DOMAIN prevOut.attrs[v]} \cup
                   {[ix EXCEPT ![iM] = @ + 1] : ix \in DOMAIN prevOut.attrs[v]}
            /\ \A ix \in DOMAIN prevOut.attrs[v] :
                /\ prevOut.attrs[v][ix] = tdvout.attrs[v][[ix EXCEPT ![iM] = @ + 1]]
                /\ prevOut.attrs[v][ix].point[iM] = prevOut.PTM[iM][ix[iM]]
C10_Witness ==
    /\ callNo = 2
    /\ pc = "returned"
    /\ Len(prevOut.PTM[iM]) = MaxPts
    /\ "Vex" \in DOMAIN prevOut.attrs
    /\ Cardinality(DOMAIN prevOut.attrs["Vex"]) > 1

\* the normalizer put a 0 concentration in front of the caller's molalities
Injected == wPTM # <<>> /\ wPTM # givenPTM

\* C11: when the call returns, every computed variable is an array over the
\* grid of the caller's original point set: its shape is the caller's point
\* count of every dimension, whether or not a 0 concentration was injected.
C11_OriginalShape ==
    pc = "returned" =>
        \A v \in DOMAIN tdvout.attrs :
            DOMAIN tdvout.attrs[v] = Indices(Shape(givenPTM))
C11_Witness ==
    /\ pc = "returned"
    /\ Injected
    /\ Len(givenPTM[iM]) > 1
    /\ DOMAIN tdvout.attrs = Names
    /\ \A v \in Names : DOMAIN tdvout.attrs[v] = Indices(Shape(givenPTM))

\* the call needs f and the caller gave no solute molecular weight
NoWeightForF == MWu = None /\ \E t \in tdvSpec : reqF(t)

\* C12 (as claimed): a request for a single point, given as a tuple of one
\* scalar per dimension, that gets through validation is evaluated: the call
\* raises nothing after validation, and when it has returned every output
\* variable has exactly one element, for a PT and for a PTM spline, also when
\* a 0 concentration was injected and removed.
C12_SinglePointTuple ==
    ptmKind \in {"tuplePy", "tupleNp"} =>
        /\ pc = "raised" =>
            \/ raised.err \in ValidationErrors \cup {"UnknownVariable"}
            \/ NoWeightForF
        /\ pc = "returned" =>
            \A v \in DOMAIN tdvout.attrs : Cardinality(DOMAIN tdvout.attrs[v]) = 1

\* the arguments a holds the resource of kind k exactly when the flag is set
ArgIff(a, k, flag, resource) ==
    /\ (k \in DOMAIN a) <=> flag
    /\ k \in DOMAIN a => a[k] = resource

\* C13: the arguments a calcFn was invoked with hold exactly one argument for
\* every flag its descriptor sets among reqDerivs, reqGrid, reqMWv, reqMWu,
\* reqTDV, reqSpline, reqPTM and reqF, and each argument is the resource of its
\* flag: the derivatives, the grid, the molecular weights, the output object
\* as it was at the call, the spline, the wrapped point set and f.
C13_ArgsMatchFlags ==
    \A t \in DOMAIN callLog :
        LET a == callLog[t].args
        IN  /\ DOMAIN a \subseteq
                   {"derivs", "grid", "MWv", "MWu", "tdv", "spline", "PTM", "f"}
            /\ ArgIff(a, "derivs", reqDerivs(t) # {}, derivs)
            /\ ArgIff(a, "grid", reqGrid(t), gPTM)
            /\ ArgIff(a, "MWv", reqMWv(t), MWv)
            /\ ArgIff(a, "MWu", reqMWu(t), MWu)
            /\ ArgIff(a, "spline", reqSpline(t), gibbsSp)
            /\ ArgIff(a, "PTM", reqPTM(t), wPTM)
            /\ ArgIff(a, "f", reqF(t), f)
            /\ ("tdv" \in DOMAIN a) <=> reqTDV[t] # {}
            /\ "tdv" \in DOMAIN a =>
                /\ a["tdv"].flds = tdvSpec \cup {"PTM"}
                /\ a["tdv"].PTM = givenPTM
                /\ DOMAIN a["tdv"].attrs = callLog[t].stored
                /\ \A d \in callLog[t].stored : a["tdv"].attrs[d] = calcFn(d, wPTM)
C13_Witness ==
    /\ {"G", "mus", "Vex"} \subseteq DOMAIN callLog
    /\ DOMAIN callLog["G"].args = {"derivs", "spline"}
    /\ "f" \in DOMAIN callLog["mus"].args
    /\ callLog["mus"].args["f"] = f
    /\ "PTM" \in DOMAIN callLog["Vex"].args
    /\ "tdv" \in DOMAIN callLog["Vex"].args

\* C14: getDerivatives calls the spline evaluator exactly once for every
\* derivative that some variable of the spec requires, never twice for a
\* derivative that several variables share, and never for a derivative that no
\* variable of the spec requires.
C14_OneCallPerDerivative ==
    /\ \A rd \in DOMAIN splineCalls :
        /\ splineCalls[rd] = 1
        /\ \E t \in tdvSpec : rd \in reqDerivs(t)
    /\ pc \in {"loop", "eval", "remove0M", "returned"} =>
        /\ \A t \in tdvSpec : reqDerivs(t) \subseteq DOMAIN splineCalls
        /\ DOMAIN derivs = DOMAIN splineCalls
C14_Witness ==
    /\ pc = "returned"
    /\ {"rho", "Vex"} \subseteq tdvSpec
    /\ "d1P" \in reqDerivs("rho") \cap reqDerivs("Vex")
    /\ splineCalls["d1P"] = 1
    /\ DOMAIN splineCalls = reqderivs(tdvSpec)

\* the spec has been expanded by this call
Expanded == pc # "expand" /\ raised.err # "UnknownVariable"

\* C15: the expanded spec holds every requested name, holds with every name
\* the names it depends on, and holds no name the registry does not have (a
\* request with such a name ends the call with UnknownVariable before anything
\* is computed); expanding the expanded spec again changes nothing.
C15_ExpansionClosed ==
    /\ Expanded =>
        /\ origSpec \subseteq tdvSpec
        /\ tdvSpec \subseteq Names
        /\ Closed(tdvSpec, reqTDV)
        /\ expandTDVSpec(tdvSpec, DimCt(gibbsSp), reqTDV) = tdvSpec
    /\ (pc # "expand" /\ unknownTDVs(origSpec) # {}) =>
        /\ pc = "raised"
        /\ raised.err = "UnknownVariable"
        /\ NothingComputed
C15_Witness ==
    /\ pc = "returned"
    /\ origSpec = {"Vex"}
    /\ tdvSpec = {"Vex"} \cup DepClosure(reqTDV["Vex"], reqTDV, Cardinality(Names))
    /\ tdvSpec = Names

\* C16: in every pass no variable of the batch depends on another variable of
\* the batch, and the variables of the batch write different slots of the
\* output object, each once; what a variable reads of the output object (the
\* values of its dependencies) was written before the pass, so in whatever
\* order the batch is evaluated the output object after the pass is the same.
C16_BatchIndependent ==
    /\ passBatch \subseteq tdvSpec
    /\ \A t \in passBatch : \A u \in passBatch : u \notin reqTDV[t]
    /\ pc = "eval" =>
        /\ tdvsToEval \subseteq passBatch
        /\ \A t \in tdvsToEval : t \notin DOMAIN tdvout.attrs /\ calls[t] = 0
        /\ \A t \in passBatch \ tdvsToEval :
            /\ calls[t] = 1
            /\ reqTDV[t] \subseteq callLog[t].completed \ passBatch
            /\ \A d \in reqTDV[t] :
                callLog[t].args["tdv"].attrs[d] = calcFn(d, wPTM)
    /\ pc \in {"loop", "eval", "remove0M"} =>
        tdvout.attrs = [t \in completedTDVs |-> calcFn(t, wPTM)]
C16_Witness ==
    /\ pc = "eval"
    /\ passBatch = {"rho", "mus"}
    /\ tdvsToEval = {"mus"}
    /\ "rho" \in DOMAIN tdvout.attrs
    /\ reqTDV["Vex"] = {"rho", "mus"}

\* C17: the normalizer puts exactly one 0 in front of the caller's molalities
\* when the spline has 3 dimensions, a variable of the spec has req0M and the
\* caller's first molality is not 0; in every other case, and in every other
\* dimension, the wrapped point set has the caller's values.
C17_ZeroPrepended ==
    wPTM # <<>> =>
        IF /\ DimCt(gibbsSp) = 3
           /\ \E t \in tdvSpec : req0M(t)
           /\ givenPTM[iM][1] # 0
        THEN wPTM = [givenPTM EXCEPT ![iM] = <<0>> \o @]
        ELSE wPTM = givenPTM
C17_Witness ==
    /\ wPTM # <<>>
    /\ DimCt(gibbsSp) = 3
    /\ Len(wPTM[iM]) = Len(givenPTM[iM]) + 1
    /\ wPTM[iM][1] = 0
    /\ wPTM[iM][2] = givenPTM[iM][1]
    /\ wPTM[iP] = givenPTM[iP]

\* C18: the reconciler takes the first molality index off the computed
\* variables exactly when the normalizer injected a 0 in this call: a returned
\* variable is its calcFn result without the injected row if a 0 was injected,
\* and its whole calcFn result otherwise (also when the caller's own
\* molalities start at 0).
C18_StripIffInjected ==
    pc = "returned" =>
        \A v \in DOMAIN tdvout.attrs :
            tdvout.attrs[v] = IF Injected THEN sliceFirstM(calcFn(v, wPTM))
                              ELSE calcFn(v, wPTM)
C18_Witness ==
    /\ pc = "returned"
    /\ ptmKind = "tupleNp"
    /\ Injected
    /\ "Vex" \in DOMAIN tdvout.attrs
    /\ tdvout.attrs["Vex"] = sliceFirstM(calcFn("Vex", wPTM))
    /\ tdvout.attrs["Vex"] # calcFn("Vex", wPTM)

\* C19: the PTM entry of the output object, from its creation to the return,
\* is the point set the caller gave: it has no injected 0 concentration, also
\* when the caller's own array was given one by the normalizer.
C19_ResultKeepsCallerPTM ==
    tdvout # NoObject => tdvout.PTM = givenPTM
C19_Witness ==
    /\ pc = "returned"
    /\ ptmKind = "arrays"
    /\ Injected
    /\ PTM = wPTM
    /\ tdvout.PTM = givenPTM
    /\ tdvout.PTM # wPTM

SplineLoads == raw.sp # None /\ validateSpline(raw.sp[1]).err = "none"
\* the numeric MW field of the file has n elements
MWHas(n) ==
    /\ raw.MW # None
    /\ Len(raw.MW[1]) = n
    /\ \A k \in 1..n : isNumeric(raw.MW[1][k])

\* C21 (as claimed): of a file whose spline loads, loadGibbsSpline, once it
\* has ended: for an MW of two elements returns the file's nu when the nu
\* field is present and numeric and fails otherwise; for an MW of one element
\* returns nu = 0 and Go = None whatever the nu and Go fields are; for an MW of
\* more than two elements fails.
C21_LoaderFields ==
    (pc # "load" /\ SplineLoads) =>
        /\ MWHas(2) =>
            IF raw.nu # None /\ isNumeric(raw.nu[1])
            THEN /\ pc = "loaded"
                 /\ loaded[1].nu = Some(raw.nu[1].val)
            ELSE pc = "raised"
        /\ MWHas(1) =>
            /\ pc = "loaded"
            /\ loaded[1].nu = Some(0)
            /\ loaded[1].Go = None
        /\ (raw.MW # None /\ Len(raw.MW[1]) > 2) => pc = "raised"

\* C22 (as claimed): a call in which every molecular weight that a variable
\* of the spec requires is present and not 0 never ends with a missing
\* molecular weight error; so a spec with reqMWv variables and no reqMWu
\* variable, with MWv not 0 and MWu absent, passes the parameter check.
C22_NoSpuriousMissingWeight ==
    (/\ Expanded
     /\ reqMWvs # {} => ~IsZeroOrAbsent(MWv)
     /\ reqMWus # {} => ~IsZeroOrAbsent(MWu)) =>
        raised.err \notin {"MissingMWv", "MissingMWu"}

\* C23 (as claimed): at every moment of a call, and after it whether it
\* returned or failed, the object the caller passed as point set holds the
\* sequences it held at the call, also when a 0 concentration was injected.
C23_CallerPTMUnchanged ==
    PTM = givenPTM

\* the call has passed validation
ValidationPassed ==
    /\ pc \notin {"expand", "check"}
    /\ raised.err \notin ValidationErrors \cup {"UnknownVariable"}

\* C24 (as claimed): a call whose spec has a reqF variable passes validation
\* only with a solute molecular weight that is present and not 0, and f is
\* computed only from such a weight.
C24_FNeedsWeight ==
    /\ (ValidationPassed /\ \E t \in tdvSpec : reqF(t)) => ~IsZeroOrAbsent(MWu)
    /\ f # None => ~IsZeroOrAbsent(MWu)

\* C25 (as claimed): for a sorted point set of a call that passed validation,
\* under either extrapolation policy, the wrapped point set that the spline
\* evaluator, the grid and f are built from is strictly ascending in every
\* dimension, and an injected 0 lies inside the molality knots of the spline.
C25_NormalizedSorted ==
    (wPTM # <<>> /\ Sorted(givenPTM)) =>
        /\ Sorted(wPTM)
        /\ Injected =>
            /\ gibbsSp.knots[iM][1] <= 0
            /\ 0 <= gibbsSp.knots[iM][Len(gibbsSp.knots[iM])]

====
